---- MODULE Spec2Model ----
(***************************************************************************)
(* Restaurant Recommendation Agent (app.py): the form-submission handler   *)
(* as a state machine.  Text is a sequence of one-character strings, so    *)
(* that lower(), replace(), title(), split() and substring search are      *)
(* computed character by character.                                        *)
(***************************************************************************)
EXTENDS Integers, Sequences, FiniteSets, TLC

VARIABLES
    pc,               \* position of the handler
    form,             \* the submitted widget values
    location_data,    \* <<>> (None) or <<[latitude, longitude]>>
    dietary_filters,  \* get_dietary_filter(dietary_restrictions)
    query_parts,      \* the subqueries of overpass_query
    result,           \* result.nodes of the Overpass answer
    restaurants,      \* the list of restaurant dicts
    unfiltered,       \* history: restaurants as they entered the free-text filter
    presorted,        \* history: restaurants as they entered the sort
    local_dishes,     \* recommend_local_dishes(cuisine_type, location)
    shown,            \* what the page shows: outcomes in the order emitted
    log               \* history: the calls made, in order

vars == << pc, form, location_data, dietary_filters, query_parts, result,
           restaurants, unfiltered, presorted, local_dishes, shown, log >>

(***************************************************************************)
(* Text helpers (str methods of Python, on ASCII text)                     *)
(***************************************************************************)
UpperChars ==
    <<"A","B","C","D","E","F","G","H","I","J","K","L","M",
      "N","O","P","Q","R","S","T","U","V","W","X","Y","Z">>

LowerChars ==
    <<"a","b","c","d","e","f","g","h","i","j","k","l","m",
      "n","o","p","q","r","s","t","u","v","w","x","y","z">>

IsUpper(c) == \E i \in 1..Len(UpperChars) : UpperChars[i] = c

IsLower(c) == \E i \in 1..Len(LowerChars) : LowerChars[i] = c

LowerChar(c) ==
    IF IsUpper(c) THEN LowerChars[CHOOSE i \in 1..Len(UpperChars) : UpperChars[i] = c] ELSE c

UpperChar(c) ==
    IF IsLower(c) THEN UpperChars[CHOOSE i \in 1..Len(LowerChars) : LowerChars[i] = c] ELSE c

\* str.lower()
lower(s) == [i \in 1..Len(s) |-> LowerChar(s[i])]

\* str.replace(old, new) for a one-character old and any text new
RECURSIVE replace(_, _, _)
replace(s, old, new) ==
    IF s = <<>> THEN <<>>
    ELSE (IF Head(s) = old THEN new ELSE <<Head(s)>>) \o replace(Tail(s), old, new)

\* needle in haystack
Contains(haystack, needle) ==
    \E i \in 1..(Len(haystack) - Len(needle) + 1) :
        SubSeq(haystack, i, i + Len(needle) - 1) = needle

(***************************************************************************)
(* Static tables and widget options                                        *)
(***************************************************************************)
CUISINE_DISHES ==
    << [key |-> <<"n", "o", "r", "t", "h", "_", "i", "n", "d", "i", "a", "n">>,
        dishes |-> <<"Butter Chicken", "Tandoori Roti", "Paneer Tikka", "Dal Makhani", "Naan", "Chole Bhature">>],
       [key |-> <<"s", "o", "u", "t", "h", "_", "i", "n", "d", "i", "a", "n">>,
        dishes |-> <<"Dosa", "Idli", "Vada", "Sambar", "Rasam", "Appam", "Pongal">>],
       [key |-> <<"c", "h", "i", "n", "e", "s", "e">>,
        dishes |-> <<"Dim Sum", "Kung Pao Chicken", "Fried Rice", "Hakka Noodles", "Manchurian">>],
       [key |-> <<"i", "t", "a", "l", "i", "a", "n">>,
        dishes |-> <<"Pizza", "Pasta", "Risotto", "Lasagna", "Tiramisu">>],
       [key |-> <<"m", "e", "x", "i", "c", "a", "n">>,
        dishes |-> <<"Tacos", "Burritos", "Quesadillas", "Guacamole">>],
       [key |-> <<"j", "a", "p", "a", "n", "e", "s", "e">>,
        dishes |-> <<"Sushi", "Ramen", "Tempura", "Udon">>],
       [key |-> <<"t", "h", "a", "i">>,
        dishes |-> <<"Pad Thai", "Green Curry", "Tom Yum Soup", "Mango Sticky Rice">>],
       [key |-> <<"s", "t", "r", "e", "e", "t", "_", "f", "o", "o", "d">>,
        dishes |-> <<"Golgappa/Pani Puri", "Vada Pav", "Bhel Puri", "Pav Bhaji", "Chole Kulche">>],
       [key |-> <<"b", "e", "n", "g", "a", "l", "i">>,
        dishes |-> <<"Mishti Doi", "Rasgulla", "Sandesh", "Fish Curry", "Kosha Mangsho">>],
       [key |-> <<"g", "u", "j", "a", "r", "a", "t", "i">>,
        dishes |-> <<"Dhokla", "Thepla", "Khandvi", "Fafda", "Undhiyu">>],
       [key |-> <<"p", "u", "n", "j", "a", "b", "i">>,
        dishes |-> <<"Sarson Da Saag", "Makki Di Roti", "Amritsari Fish", "Butter Chicken", "Lassi">>],
       [key |-> <<"s", "e", "a", "f", "o", "o", "d">>,
        dishes |-> <<"Fish Curry", "Prawn Masala", "Crab Roast", "Fish Fry">>],
       [key |-> <<"v", "e", "g", "e", "t", "a", "r", "i", "a", "n">>,
        dishes |-> <<"Paneer Dishes", "Dal Tadka", "Gobi Manchurian", "Vegetable Biryani">>],
       [key |-> <<"v", "e", "g", "a", "n">>,
        dishes |-> <<"Vegetable Curry", "Tofu Dishes", "Falafel">>],
       [key |-> <<"f", "a", "s", "t", "_", "f", "o", "o", "d">>,
        dishes |-> <<"Burgers", "Pizza", "Fries", "Sandwiches">>] >>

REGIONAL_DISHES ==
    << [key |-> <<"d", "e", "l", "h", "i">>,
        dishes |-> <<"Chole Bhature", "Paranthas", "Butter Chicken", "Chaat", "Kebabs">>],
       [key |-> <<"m", "u", "m", "b", "a", "i">>,
        dishes |-> <<"Vada Pav", "Pav Bhaji", "Bhel Puri", "Bombay Sandwich">>],
       [key |-> <<"b", "a", "n", "g", "a", "l", "o", "r", "e">>,
        dishes |-> <<"Dosa", "Idli Vada", "Filter Coffee", "Bisi Bele Bath">>],
       [key |-> <<"k", "o", "l", "k", "a", "t", "a">>,
        dishes |-> <<"Rasgulla", "Sandesh", "Kathi Rolls", "Fish Curry", "Phuchka">>],
       [key |-> <<"c", "h", "e", "n", "n", "a", "i">>,
        dishes |-> <<"Idli", "Dosa", "Filter Coffee", "Chettinad Cuisine">>],
       [key |-> <<"h", "y", "d", "e", "r", "a", "b", "a", "d">>,
        dishes |-> <<"Hyderabadi Biryani", "Haleem", "Irani Chai", "Osmania Biscuits">>],
       [key |-> <<"j", "a", "i", "p", "u", "r">>,
        dishes |-> <<"Dal Baati Churma", "Pyaaz Kachori", "Ghewar", "Laal Maas">>],
       [key |-> <<"l", "u", "c", "k", "n", "o", "w">>,
        dishes |-> <<"Tunday Kebabs", "Lucknowi Biryani", "Basket Chaat", "Sheermal">>] >>

CuisineOptions ==
    << <<"A", "n", "y">>,
       <<"N", "o", "r", "t", "h", " ", "I", "n", "d", "i", "a", "n">>,
       <<"S", "o", "u", "t", "h", " ", "I", "n", "d", "i", "a", "n">>,
       <<"C", "h", "i", "n", "e", "s", "e">>,
       <<"I", "t", "a", "l", "i", "a", "n">>,
       <<"J", "a", "p", "a", "n", "e", "s", "e">>,
       <<"T", "h", "a", "i">>,
       <<"M", "e", "x", "i", "c", "a", "n">>,
       <<"S", "t", "r", "e", "e", "t", " ", "F", "o", "o", "d">>,
       <<"B", "e", "n", "g", "a", "l", "i">>,
       <<"G", "u", "j", "a", "r", "a", "t", "i">>,
       <<"P", "u", "n", "j", "a", "b", "i">> >>

BudgetOptions ==
    <<"Budget (<₹300)", "Moderate (₹300-₹600)", "High (₹600-₹1000)", "Premium (>₹1000)">>

DietaryOptions == {"None", "Vegetarian", "Vegan", "Gluten-Free"}

Range(s) == {s[i] : i \in DOMAIN s}

(***************************************************************************)
(* Query helpers                                                           *)
(***************************************************************************)
get_budget_tag(budget_range) ==
    IF budget_range = "Budget (<₹300)" THEN <<"1">>
    ELSE IF budget_range = "Moderate (₹300-₹600)" THEN <<"2">>
    ELSE IF budget_range = "High (₹600-₹1000)" THEN <<"3">>
    ELSE <<"4">>

\* <<>> stands for None
get_cuisine_tag(cuisine_type) ==
    IF cuisine_type = <<"A", "n", "y">> THEN <<>>
    ELSE <<replace(lower(cuisine_type), " ", <<"_">>)>>

yes == <<"y", "e", "s">>

TagFilter(tag, op, val) == [tag |-> tag, op |-> op, val |-> val]

\* faulty variant: the "None" option is ignored when a flag is selected with it
get_dietary_filter_IgnoringNone(dietary_restrictions) ==
    (IF "Vegetarian" \in dietary_restrictions
        THEN <<TagFilter("diet:vegetarian", "=", yes)>> ELSE <<>>)
    \o (IF "Vegan" \in dietary_restrictions
        THEN <<TagFilter("diet:vegan", "=", yes)>> ELSE <<>>)
    \o (IF "Gluten-Free" \in dietary_restrictions
        THEN <<TagFilter("diet:gluten_free", "=", yes)>> ELSE <<>>)

get_dietary_filter(dietary_restrictions) ==
    IF "None" \in dietary_restrictions \/ dietary_restrictions = {} THEN <<>>
    ELSE (IF "Vegetarian" \in dietary_restrictions
             THEN <<TagFilter("diet:vegetarian", "=", yes)>> ELSE <<>>)
         \o (IF "Vegan" \in dietary_restrictions
             THEN <<TagFilter("diet:vegan", "=", yes)>> ELSE <<>>)
         \o (IF "Gluten-Free" \in dietary_restrictions
             THEN <<TagFilter("diet:gluten_free", "=", yes)>> ELSE <<>>)

\* truthiness of an optional text: neither None nor ''
Truthy(opt) == opt # <<>> /\ opt[1] # <<>>

\* (around:{radius_km * 1000},{latitude},{longitude}); radius_km is held in tenths of a km
Around(radius_km, origin) ==
    [meters |-> (radius_km * 1000) \div 10,
     latitude |-> origin.latitude, longitude |-> origin.longitude]

Subquery(amenity, around, filters) ==
    [amenity |-> amenity, around |-> around, filters |-> filters]

restaurant_query(f, origin) ==
    Subquery("restaurant", Around(f.radius_km, origin),
        (IF Truthy(get_cuisine_tag(f.cuisine_type))
            THEN <<TagFilter("cuisine", "~", get_cuisine_tag(f.cuisine_type)[1])>> ELSE <<>>)
        \o get_dietary_filter(f.dietary_restrictions)
        \o (IF get_budget_tag(f.budget_range) # <<>>
            THEN <<TagFilter("price_range", "=", get_budget_tag(f.budget_range))>> ELSE <<>>))

\* faulty variant: the cafe subquery also carries the price filter
cafe_query_WithPrice(f, origin) ==
    Subquery("cafe", Around(f.radius_km, origin),
        get_dietary_filter(f.dietary_restrictions)
        \o <<TagFilter("price_range", "=", get_budget_tag(f.budget_range))>>)

cafe_query(f, origin) ==
    Subquery("cafe", Around(f.radius_km, origin), get_dietary_filter(f.dietary_restrictions))

fast_food_query(f, origin) ==
    Subquery("fast_food", Around(f.radius_km, origin), <<>>)

build_query(f, origin) ==
    <<restaurant_query(f, origin), cafe_query(f, origin)>>
    \o (IF f.budget_range = "Budget (<₹300)" THEN <<fast_food_query(f, origin)>> ELSE <<>>)

DigitChars == <<"0", "1", "2", "3", "4", "5", "6", "7", "8", "9">>

(***************************************************************************)
(* Numbers as text: float(), int(), str() on the values the model draws    *)
(***************************************************************************)
IsDigit(c) == \E i \in DOMAIN DigitChars : DigitChars[i] = c

DigitVal(c) == (CHOOSE i \in DOMAIN DigitChars : DigitChars[i] = c) - 1

AllDigits(s) == \A i \in DOMAIN s : IsDigit(s[i])

RECURSIVE DigitsVal(_)
DigitsVal(s) ==
    IF s = <<>> THEN 0 ELSE DigitsVal(SubSeq(s, 1, Len(s) - 1)) * 10 + DigitVal(s[Len(s)])

RECURSIVE Pow10(_)
Pow10(k) == IF k = 0 THEN 1 ELSE 10 * Pow10(k - 1)

HasSign(s) == s # <<>> /\ Head(s) \in {"-", "+"}

Unsigned(s) == IF HasSign(s) THEN Tail(s) ELSE s

SignOf(s) == IF s # <<>> /\ Head(s) = "-" THEN -1 ELSE 1

DotAt(s) == { i \in DOMAIN s : s[i] = "." }

\* the texts float() accepts here: [sign] digits [. digits] or [sign] . digits
IsFloatLiteral(s) ==
    LET u == Unsigned(s) IN
    \/ u # <<>> /\ AllDigits(u)
    \/ /\ Cardinality(DotAt(u)) = 1
       /\ LET d == CHOOSE i \in DotAt(u) : TRUE IN
          /\ AllDigits(SubSeq(u, 1, d - 1))
          /\ AllDigits(SubSeq(u, d + 1, Len(u)))
          /\ Len(u) > 1

\* float(s) as the exact decimal num / den
ParseFloat(s) ==
    LET u == Unsigned(s) IN
    IF DotAt(u) = {} THEN [num |-> SignOf(s) * DigitsVal(u), den |-> 1]
    ELSE LET d == CHOOSE i \in DotAt(u) : TRUE
             frac == SubSeq(u, d + 1, Len(u)) IN
         [num |-> SignOf(s) * (DigitsVal(SubSeq(u, 1, d - 1)) * Pow10(Len(frac)) + DigitsVal(frac)),
          den |-> Pow10(Len(frac))]

\* the texts int() accepts here: [sign] digits
IsIntLiteral(s) == Unsigned(s) # <<>> /\ AllDigits(Unsigned(s))

ParseInt(s) == SignOf(s) * DigitsVal(Unsigned(s))

\* int(x): truncation toward zero of num / den
TruncDiv(num, den) == IF num >= 0 THEN num \div den ELSE -((-num) \div den)

RECURSIVE NatStr(_)
NatStr(n) ==
    IF n < 10 THEN <<DigitChars[n + 1]>> ELSE NatStr(n \div 10) \o <<DigitChars[(n % 10) + 1]>>

\* str(n) of an int
IntStr(n) == IF n < 0 THEN <<"-">> \o NatStr(-n) ELSE NatStr(n)

\* str(x) of a float held in tenths: 42 is 4.2, 40 is 4.0
TenthsStr(t) ==
    (IF t < 0 THEN <<"-">> ELSE <<>>)
    \o NatStr((IF t < 0 THEN -t ELSE t) \div 10) \o <<".">>
    \o <<DigitChars[((IF t < 0 THEN -t ELSE t) % 10) + 1]>>

\* a star rating: an int (from the stars tag) or a float with one decimal (synthesized)
IntStars(n) == [isint |-> TRUE, tenths |-> n * 10]

FloatStars(t) == [isint |-> FALSE, tenths |-> t]

StarsStr(stars) == IF stars.isint THEN IntStr(stars.tenths \div 10) ELSE TenthsStr(stars.tenths)

(***************************************************************************)
(* extract_restaurant_details                                              *)
(***************************************************************************)
IsLetter(c) == IsUpper(c) \/ IsLower(c)

\* str.title(): a letter is uppercased when it starts a run of letters, else lowercased
title(s) ==
    [i \in 1..Len(s) |->
        IF i > 1 /\ IsLetter(s[i - 1]) THEN LowerChar(s[i]) ELSE UpperChar(s[i])]

\* dict.get(key, default)
Get(tags, key, default) == IF key \in DOMAIN tags THEN tags[key] ELSE default

\* truthiness of tags.get(key): present and not ''
Has(tags, key) == key \in DOMAIN tags /\ tags[key] # <<>>

RECURSIVE join(_, _)
join(sep, parts) ==
    IF parts = <<>> THEN <<>>
    ELSE IF Len(parts) = 1 THEN parts[1]
    ELSE parts[1] \o sep \o join(sep, Tail(parts))

RECURSIVE Repeat(_, _)
Repeat(s, n) == IF n <= 0 THEN <<>> ELSE s \o Repeat(s, n - 1)

UnnamedRestaurant == <<"U", "n", "n", "a", "m", "e", "d", " ", "R", "e", "s", "t", "a", "u", "r", "a", "n", "t">>

AddressNotAvailable == <<"A", "d", "d", "r", "e", "s", "s", " ", "n", "o", "t", " ", "a", "v", "a", "i", "l", "a", "b", "l", "e">>

NotAvailable == <<"N", "o", "t", " ", "a", "v", "a", "i", "l", "a", "b", "l", "e">>

HoursNotAvailable == <<"H", "o", "u", "r", "s", " ", "n", "o", "t", " ", "a", "v", "a", "i", "l", "a", "b", "l", "e">>

NotRated == <<"N", "o", "t", " ", "r", "a", "t", "e", "d">>

address_parts(tags) ==
    (IF Has(tags, "addr:housenumber") THEN <<tags["addr:housenumber"]>> ELSE <<>>)
    \o (IF Has(tags, "addr:street") THEN <<tags["addr:street"]>> ELSE <<>>)
    \o (IF Has(tags, "addr:city") THEN <<tags["addr:city"]>> ELSE <<>>)
    \o (IF Has(tags, "addr:postcode") THEN <<tags["addr:postcode"]>> ELSE <<>>)

\* line 165: <<>> is None
tag_stars(tags) ==
    IF "stars" \in DOMAIN tags
    THEN LET x == ParseFloat(tags["stars"]) IN <<IntStars(TruncDiv(x.num * 5, x.den))>>
    ELSE <<>>

\* lines 167-169: "if not stars" holds for None and for 0; drawn is the value of
\* round(random.uniform(3.5, 4.9), 1), in tenths
final_stars(tags, drawn) ==
    IF tag_stars(tags) = <<>> \/ tag_stars(tags)[1].tenths = 0
    THEN FloatStars(drawn)
    ELSE tag_stars(tags)[1]

\* float() of the stars tag or int() of the price_range tag raises ValueError
extract_raises(element) ==
    \/ "stars" \in DOMAIN element.tags /\ ~IsFloatLiteral(element.tags["stars"])
    \/ /\ Get(element.tags, "price_range", <<>>) # <<>>
       /\ ~IsIntLiteral(element.tags["price_range"])

extract_restaurant_details(element, drawn) ==
    LET tags == element.tags
        price_range == Get(tags, "price_range", <<>>)
        stars == final_stars(tags, drawn)
    IN  [name |-> Get(tags, "name", UnnamedRestaurant),
         cuisine |-> title(replace(Get(tags, "cuisine", <<>>), ";", <<",", " ">>)),
         address |-> IF address_parts(tags) # <<>>
                     THEN join(<<",", " ">>, address_parts(tags))
                     ELSE AddressNotAvailable,
         phone |-> Get(tags, "phone", Get(tags, "contact:phone", NotAvailable)),
         website |-> Get(tags, "website", Get(tags, "contact:website", <<>>)),
         opening_hours |-> Get(tags, "opening_hours", HoursNotAvailable),
         price_range |-> price_range,
         price_display |-> Repeat(<<"₹">>, IF price_range # <<>> THEN ParseInt(price_range) ELSE 2),
         stars |-> stars,
         rating |-> IF stars.tenths # 0 THEN StarsStr(stars) \o <<"/", "5">> ELSE NotRated,
         lat |-> element.lat,
         lon |-> element.lon]

(***************************************************************************)
(* IEEE-754 binary64 arithmetic of sort_key.  A magnitude is a natural     *)
(* number of units of 2^-56 held in three limbs <<low, mid, high>> of 20   *)
(* bits (the high limb is not reduced).  The magnitudes met are below 2^6, *)
(* so rounding to 53 significant bits drops at most 9 low bits.            *)
(***************************************************************************)
LimbBase == 1048576

Significand == 53

RECURSIVE Pow2(_)
Pow2(k) == IF k = 0 THEN 1 ELSE 2 * Pow2(k - 1)

RECURSIVE BitLen(_)
BitLen(n) == IF n = 0 THEN 0 ELSE 1 + BitLen(n \div 2)

\* carries (or borrows) propagated upwards
Norm(x) ==
    LET c0 == x[1] \div LimbBase
        m1 == x[2] + c0
        c1 == m1 \div LimbBase
    IN  <<x[1] % LimbBase, m1 % LimbBase, x[3] + c1>>

MulSmall(x, d) == Norm(<<x[1] * d, x[2] * d, x[3] * d>>)

SubMag(x, y) == Norm(<<x[1] - y[1], x[2] - y[2], x[3] - y[3]>>)

AddMag(x, y) == Norm(<<x[1] + y[1], x[2] + y[2], x[3] + y[3]>>)

MagLess(x, y) ==
    \/ x[3] < y[3]
    \/ x[3] = y[3] /\ x[2] < y[2]
    \/ x[3] = y[3] /\ x[2] = y[2] /\ x[1] < y[1]

MagBitLen(x) ==
    IF x[3] > 0 THEN 40 + BitLen(x[3])
    ELSE IF x[2] > 0 THEN 20 + BitLen(x[2])
    ELSE BitLen(x[1])

\* round to nearest, ties to even, at 53 significant bits
Round53(x) ==
    LET q == MagBitLen(x) - Significand IN
    IF q <= 0 THEN x
    ELSE LET unit == Pow2(q)
             low == x[1] % unit
             odd == (x[1] \div unit) % 2 = 1
             down == SubMag(x, <<low, 0, 0>>)
         IN  IF 2 * low > unit \/ (2 * low = unit /\ odd)
             THEN AddMag(down, <<unit, 0, 0>>)
             ELSE down

\* the double 0.1 = 7205759403792794 * 2^-56 (line 323)
Tenth == <<629146, 629145, 6553>>

\* n * 2^k as a magnitude, for k >= 40
Shifted(n, k) == <<0, 0, n * Pow2(k - 40)>>

\* quotient and remainder of a magnitude by a small divisor
DivSmall(x, d) ==
    LET q3 == x[3] \div d
        c2 == (x[3] % d) * LimbBase + x[2]
        q2 == c2 \div d
        c1 == (c2 % d) * LimbBase + x[1]
    IN  [quot |-> Norm(<<c1 \div d, q2, q3>>), rem |-> c1 % d]

\* the double nearest to t / 10, for t >= 10: what round(x, 1) returns
TenthsToDouble(t) ==
    LET e == BitLen(t \div 10) - 1
        d == DivSmall(Shifted(t, 52 - e), 10)
        odd == d.quot[1] % 2 = 1
        sig == IF d.rem > 5 \/ (d.rem = 5 /\ odd) THEN AddMag(d.quot, <<1, 0, 0>>) ELSE d.quot
    IN  MulSmall(sig, Pow2(e + 4))

\* float(stars) as a signed magnitude
StarsToDouble(stars) ==
    IF stars.isint
    THEN [neg |-> stars.tenths < 0,
          mag |-> Shifted(IF stars.tenths < 0 THEN -(stars.tenths \div 10) ELSE stars.tenths \div 10, 56)]
    ELSE [neg |-> FALSE, mag |-> TenthsToDouble(stars.tenths)]

\* a - b of two magnitudes, rounded
FloatSub(a, b) ==
    IF MagLess(a, b) THEN [neg |-> TRUE, mag |-> Round53(SubMag(b, a))]
    ELSE [neg |-> FALSE, mag |-> Round53(SubMag(a, b))]

FloatLess(a, b) ==
    IF a.neg /\ ~b.neg THEN a.mag # <<0, 0, 0>> \/ b.mag # <<0, 0, 0>>
    ELSE IF ~a.neg /\ b.neg THEN FALSE
    ELSE IF a.neg THEN MagLess(b.mag, a.mag)
    ELSE MagLess(a.mag, b.mag)

\* lines 319-323: -rating_factor + (distance_factor * 0.1); distance is a whole number of km
sort_key(r) ==
    LET rating_factor == StarsToDouble(r.stars)
        weighted == Round53(MulSmall(Tenth, r.distance))
    IN  IF rating_factor.neg
        THEN [neg |-> FALSE, mag |-> Round53(AddMag(weighted, rating_factor.mag))]
        ELSE FloatSub(weighted, rating_factor.mag)

(***************************************************************************)
(* The result loop, the free-text filter and the ranking                   *)
(***************************************************************************)
EligibleAmenities == {<<"r", "e", "s", "t", "a", "u", "r", "a", "n", "t">>, <<"c", "a", "f", "e">>, <<"f", "a", "s", "t", "_", "f", "o", "o", "d">>}

\* line 295
Eligible(node) ==
    /\ "name" \in DOMAIN node.tags
    /\ "amenity" \in DOMAIN node.tags
    /\ node.tags["amenity"] \in EligibleAmenities

Abs(n) == IF n < 0 THEN -n ELSE n

\* geodesic(...).kilometers: the model's points lie on a grid whose step is 1 km
geodesic_km(origin, lat, lon) == Abs(lat - origin.latitude) + Abs(lon - origin.longitude)

\* lines 296-303 for one node
restaurant_of(node, origin, drawn) ==
    LET restaurant == extract_restaurant_details(node, drawn) IN
    restaurant @@ ("distance" :> geodesic_km(origin, restaurant.lat, restaurant.lon))

RECURSIVE process_nodes(_, _, _)
process_nodes(nodes, origin, draws) ==
    IF nodes = <<>> THEN <<>>
    ELSE (IF Eligible(Head(nodes))
          THEN <<restaurant_of(Head(nodes), origin, Head(draws))>> ELSE <<>>)
         \o process_nodes(Tail(nodes), origin, Tail(draws))

process_raises(nodes) ==
    \E i \in DOMAIN nodes : Eligible(nodes[i]) /\ extract_raises(nodes[i])

\* repr() of a text without quotes or escapes in it
Quote(s) == <<"'">> \o s \o <<"'">>

\* repr() of a float with a whole value
WholeFloatStr(n) == IntStr(n) \o <<".", "0">>

Entry(key, value) == Quote(key) \o <<":", " ">> \o value

\* str(restaurant): the dict's keys and values, in insertion order
dict_str(r) ==
    <<"{">>
    \o join(<<",", " ">>,
         << Entry(<<"n", "a", "m", "e">>, Quote(r.name)),
            Entry(<<"c", "u", "i", "s", "i", "n", "e">>, Quote(r.cuisine)),
            Entry(<<"a", "d", "d", "r", "e", "s", "s">>, Quote(r.address)),
            Entry(<<"p", "h", "o", "n", "e">>, Quote(r.phone)),
            Entry(<<"w", "e", "b", "s", "i", "t", "e">>, Quote(r.website)),
            Entry(<<"o", "p", "e", "n", "i", "n", "g", "_", "h", "o", "u", "r", "s">>, Quote(r.opening_hours)),
            Entry(<<"p", "r", "i", "c", "e", "_", "r", "a", "n", "g", "e">>, Quote(r.price_range)),
            Entry(<<"p", "r", "i", "c", "e", "_", "d", "i", "s", "p", "l", "a", "y">>, Quote(r.price_display)),
            Entry(<<"s", "t", "a", "r", "s">>, StarsStr(r.stars)),
            Entry(<<"r", "a", "t", "i", "n", "g">>, Quote(r.rating)),
            Entry(<<"l", "a", "t">>, WholeFloatStr(r.lat)),
            Entry(<<"l", "o", "n">>, WholeFloatStr(r.lon)),
            Entry(<<"d", "i", "s", "t", "a", "n", "c", "e">>, WholeFloatStr(r.distance)) >>)
    \o <<"}">>

\* the length of the leading run of non-blank characters
WordLen(s) ==
    IF \E i \in DOMAIN s : s[i] = " "
    THEN (CHOOSE i \in DOMAIN s : s[i] = " " /\ \A j \in 1..(i - 1) : s[j] # " ") - 1
    ELSE Len(s)

\* str.split(): the words between runs of blanks
RECURSIVE split(_)
split(s) ==
    IF s = <<>> THEN <<>>
    ELSE IF Head(s) = " " THEN split(Tail(s))
    ELSE <<SubSeq(s, 1, WordLen(s))>> \o split(SubSeq(s, WordLen(s) + 1, Len(s)))

\* line 311
matches(restaurant, preferences_lower) ==
    \E k \in DOMAIN split(preferences_lower) :
        Contains(lower(dict_str(restaurant)), split(preferences_lower)[k])

\* faulty variant: an empty filtered list replaces the original one
filter_preferences_NoFallback(rs, additional_preferences) ==
    IF additional_preferences = <<>> THEN rs
    ELSE LET Keep(r) == matches(r, lower(additional_preferences))
         IN  SelectSeq(rs, Keep)

\* lines 305-316
filter_preferences(rs, additional_preferences) ==
    IF additional_preferences = <<>> THEN rs
    ELSE LET Keep(r) == matches(r, lower(additional_preferences))
             filtered_restaurants == SelectSeq(rs, Keep)
         IN  IF filtered_restaurants # <<>> THEN filtered_restaurants ELSE rs

\* faulty variant: x put before the first element whose key is not smaller (an unstable sort)
RECURSIVE InsertByKey_Unstable(_, _)
InsertByKey_Unstable(sorted, x) ==
    IF sorted = <<>> THEN <<x>>
    ELSE IF ~FloatLess(sort_key(Head(sorted)), sort_key(x)) THEN <<x>> \o sorted
    ELSE <<Head(sorted)>> \o InsertByKey_Unstable(Tail(sorted), x)

\* x put before the first element whose key is greater than x's
RECURSIVE InsertByKey(_, _)
InsertByKey(sorted, x) ==
    IF sorted = <<>> THEN <<x>>
    ELSE IF FloatLess(sort_key(x), sort_key(Head(sorted))) THEN <<x>> \o sorted
    ELSE <<Head(sorted)>> \o InsertByKey(Tail(sorted), x)

\* list.sort(key=sort_key): stable
RECURSIVE sort(_)
sort(rs) ==
    IF rs = <<>> THEN <<>> ELSE InsertByKey(sort(SubSeq(rs, 1, Len(rs) - 1)), rs[Len(rs)])

\* restaurants[:num_recommendations]
truncate(rs, n) == SubSeq(rs, 1, IF n < Len(rs) THEN n ELSE Len(rs))

(***************************************************************************)
(* recommend_local_dishes: the set of lists it can return, one for each    *)
(* outcome of random.sample                                                *)
(***************************************************************************)
Min(a, b) == IF a < b THEN a ELSE b

\* random.sample(population, k) for k <= 2: k distinct positions, in any order
Sample(population, k) ==
    IF k = 0 THEN {<<>>}
    ELSE IF k = 1 THEN { <<population[i]>> : i \in DOMAIN population }
    ELSE { <<population[ij[1]], population[ij[2]]>> :
             ij \in { x \in (DOMAIN population) \X (DOMAIN population) : x[1] # x[2] } }

\* line 196: cuisine_key in CUISINE_DISHES (None is no key)
CuisineBucket(cuisine_key) ==
    { i \in DOMAIN CUISINE_DISHES : cuisine_key # <<>> /\ CUISINE_DISHES[i].key = cuisine_key[1] }

cuisine_samples(cuisine_key) ==
    IF CuisineBucket(cuisine_key) # {}
    THEN LET b == CUISINE_DISHES[CHOOSE i \in CuisineBucket(cuisine_key) : TRUE].dishes
         IN  Sample(b, Min(2, Len(b)))
    ELSE {<<>>}

\* lines 200-204: the first region, in table order, named in the location
MatchingRegions(location_lower) ==
    { i \in DOMAIN REGIONAL_DISHES : Contains(location_lower, REGIONAL_DISHES[i].key) }

region_samples(location_lower) ==
    IF MatchingRegions(location_lower) # {}
    THEN LET first == CHOOSE i \in MatchingRegions(location_lower) :
                          \A j \in MatchingRegions(location_lower) : i <= j
             b == REGIONAL_DISHES[first].dishes
         IN  Sample(b, Min(2, Len(b)))
    ELSE {<<>>}

any == <<"a", "n", "y">>

\* line 207: cuisine_key != "any", where cuisine_key is None for "Any"
fallback_applies(dishes, cuisine_key) ==
    dishes = <<>> /\ (cuisine_key = <<>> \/ cuisine_key[1] # any)

\* lines 208-211: one dish of each bucket in table order, until 3 are collected
RECURSIVE fallback_samples(_, _)
fallback_samples(i, dishes) ==
    IF i > Len(CUISINE_DISHES) THEN {dishes}
    ELSE UNION { IF Len(dishes \o one) >= 3 THEN {dishes \o one}
                 ELSE fallback_samples(i + 1, dishes \o one) :
                 one \in Sample(CUISINE_DISHES[i].dishes, 1) }

recommend_local_dishes(cuisine_type, location_name) ==
    LET cuisine_key == get_cuisine_tag(cuisine_type)
        gathered == { c \o r : c \in cuisine_samples(cuisine_key),
                               r \in region_samples(lower(location_name)) }
    IN  UNION { { SubSeq(d, 1, Min(3, Len(d))) :
                    d \in IF fallback_applies(dishes, cuisine_key)
                          THEN fallback_samples(1, dishes) ELSE {dishes} } :
                dishes \in gathered }

(***************************************************************************)
(* The handler, step by step                                               *)
(***************************************************************************)
Form(location, cuisine_type, budget_range, dietary_restrictions, radius_km, num_recommendations, additional_preferences) ==
    [location |-> location, cuisine_type |-> cuisine_type, budget_range |-> budget_range,
     dietary_restrictions |-> dietary_restrictions, radius_km |-> radius_km,
     num_recommendations |-> num_recommendations,
     additional_preferences |-> additional_preferences]

\* what the page ends up showing
Outcome(kind, rs, dishes) == [kind |-> kind, restaurants |-> rs, dishes |-> dishes]

\* the widgets' values before anything is entered (lines 66-103)
DefaultForm == Form(<<>>, CuisineOptions[1], BudgetOptions[1], {}, 20, 5, <<>>)

\* lines 105, 216, 431-432: the form is submitted with the values in f
Submit(f) ==
    /\ pc = "form"
    /\ form' = f
    /\ IF f.location # <<>>
       THEN pc' = "geocode" /\ shown' = shown
       ELSE pc' = "done" /\ shown' = Append(shown, Outcome("enter_location", <<>>, <<>>))
    /\ UNCHANGED << location_data, dietary_filters, query_parts, result, restaurants,
                    unfiltered, presorted, local_dishes, log >>

\* line 220: the geocoder answers with a point
GeocodeFound ==
    /\ pc = "geocode"
    /\ \E origin \in {[latitude |-> 28, longitude |-> 77]} : location_data' = <<origin>>
    /\ log' = Append(log, "geocode")
    /\ pc' = "build"
    /\ UNCHANGED << form, dietary_filters, query_parts, result, restaurants, unfiltered,
                    presorted, local_dishes, shown >>

\* faulty variant: the not-found branch does not stop the script
GeocodeNone_Continue ==
    /\ pc = "geocode"
    /\ location_data' = <<[latitude |-> 0, longitude |-> 0]>>
    /\ log' = Append(log, "geocode")
    /\ shown' = Append(shown, Outcome("not_found", <<>>, <<>>))
    /\ pc' = "build"
    /\ UNCHANGED << form, dietary_filters, query_parts, result, restaurants, unfiltered,
                    presorted, local_dishes >>

\* lines 220-223: the geocoder answers None; st.error, then st.stop() ends the script
GeocodeNone ==
    /\ pc = "geocode"
    /\ location_data' = <<>>
    /\ log' = Append(log, "geocode")
    /\ shown' = Append(shown, Outcome("not_found", <<>>, <<>>))
    /\ pc' = "done"
    /\ UNCHANGED << form, dietary_filters, query_parts, result, restaurants, unfiltered,
                    presorted, local_dishes >>

\* lines 220, 428-429: the geocoder raises
GeocodeRaises ==
    /\ pc = "geocode"
    /\ log' = log \o <<"geocode", "raised">>
    /\ shown' = Append(shown, Outcome("error", <<>>, <<>>))
    /\ pc' = "done"
    /\ UNCHANGED << form, location_data, dietary_filters, query_parts, result, restaurants,
                    unfiltered, presorted, local_dishes >>

\* lines 238-286: the query is built from the geocoded origin and the preferences
BuildQuery ==
    /\ pc = "build"
    /\ dietary_filters' = get_dietary_filter(form.dietary_restrictions)
    /\ query_parts' = build_query(form, location_data[1])
    /\ log' = Append(log, "build")
    /\ pc' = "query"
    /\ UNCHANGED << form, location_data, result, restaurants, unfiltered, presorted,
                    local_dishes, shown >>

\* line 290: the Overpass service answers with nodes
QueryReturns(nodes) ==
    /\ pc = "query"
    /\ result' = nodes
    /\ log' = Append(log, "query")
    /\ pc' = "process"
    /\ UNCHANGED << form, location_data, dietary_filters, query_parts, restaurants,
                    unfiltered, presorted, local_dishes, shown >>

\* faulty variant: the failure of the query is swallowed and the handler goes on with no node
QueryRaises_Swallowed ==
    /\ pc = "query"
    /\ log' = log \o <<"query", "raised">>
    /\ result' = <<>>
    /\ pc' = "process"
    /\ UNCHANGED << form, location_data, dietary_filters, query_parts, restaurants,
                    unfiltered, presorted, local_dishes, shown >>

\* lines 290, 428-429: the Overpass service raises
QueryRaises ==
    /\ pc = "query"
    /\ log' = log \o <<"query", "raised">>
    /\ shown' = Append(shown, Outcome("error", <<>>, <<>>))
    /\ pc' = "done"
    /\ UNCHANGED << form, location_data, dietary_filters, query_parts, result, restaurants,
                    unfiltered, presorted, local_dishes >>

\* the bounds of random.uniform(3.5, 4.9), in tenths (line 169)
MinDraw == 35

MaxDraw == 49

UsesDraw(node) ==
    Eligible(node) /\ (tag_stars(node.tags) = <<>> \/ tag_stars(node.tags)[1].tenths = 0)

\* one drawn rating for each node that needs one
RECURSIVE Draws(_)
Draws(nodes) ==
    IF nodes = <<>> THEN {<<>>}
    ELSE { <<d>> \o rest :
             d \in (IF UsesDraw(Head(nodes)) THEN MinDraw..MaxDraw ELSE {MinDraw}),
             rest \in Draws(Tail(nodes)) }

\* lines 292-303, 428-429: the result loop; a ValueError of the normalizer is caught
Process ==
    /\ pc = "process"
    /\ IF process_raises(result)
       THEN /\ log' = log \o <<"normalize", "raised">>
            /\ shown' = Append(shown, Outcome("error", <<>>, <<>>))
            /\ pc' = "done"
            /\ UNCHANGED restaurants
       ELSE /\ \E d \in Draws(result) :
                  restaurants' = process_nodes(result, location_data[1], d)
            /\ log' = Append(log, "normalize")
            /\ pc' = "filter"
            /\ UNCHANGED shown
    /\ UNCHANGED << form, location_data, dietary_filters, query_parts, result, unfiltered,
                    presorted, local_dishes >>

\* lines 305-316
FilterPreferences ==
    /\ pc = "filter"
    /\ unfiltered' = restaurants
    /\ restaurants' = filter_preferences(restaurants, form.additional_preferences)
    /\ log' = Append(log, "filter")
    /\ pc' = "sort"
    /\ UNCHANGED << form, location_data, dietary_filters, query_parts, result, presorted,
                    local_dishes, shown >>

\* lines 318-328
SortAndLimit ==
    /\ pc = "sort"
    /\ presorted' = restaurants
    /\ restaurants' = truncate(sort(restaurants), form.num_recommendations)
    /\ log' = Append(log, "rank")
    /\ pc' = "display"
    /\ UNCHANGED << form, location_data, dietary_filters, query_parts, result, unfiltered,
                    local_dishes, shown >>

\* lines 330-414: the dishes and the ranked restaurants are shown
DisplayResults ==
    /\ pc = "display"
    /\ restaurants # <<>>
    /\ \E dishes \in recommend_local_dishes(form.cuisine_type, form.location) :
          /\ local_dishes' = dishes
          /\ shown' = Append(shown, Outcome("success", restaurants, dishes))
    /\ log' = Append(log, "recommend")
    /\ pc' = "done"
    /\ UNCHANGED << form, location_data, dietary_filters, query_parts, result, restaurants,
                    unfiltered, presorted >>

\* lines 416-426
DisplayNoMatches ==
    /\ pc = "display"
    /\ restaurants = <<>>
    /\ shown' = Append(shown, Outcome("no_matches", <<>>, <<>>))
    /\ pc' = "done"
    /\ UNCHANGED << form, location_data, dietary_filters, query_parts, result, restaurants,
                    unfiltered, presorted, local_dishes, log >>

(***************************************************************************)
(* Inputs                                                                  *)
(***************************************************************************)
Delhi == <<"C", "o", "n", "n", "a", "u", "g", "h", "t", " ", "P", "l", "a", "c", "e", ",", " ", "D", "e", "l", "h", "i">>

Rome == <<"R", "o", "m", "e">>

Origin == [latitude |-> 28, longitude |-> 77]

\* an OSM node: its tags and its position
Node(tags, lat, lon) == [tags |-> tags, lat |-> lat, lon |-> lon]

Blank ==
    /\ location_data = <<>>
    /\ dietary_filters = <<>>
    /\ query_parts = <<>>
    /\ result = <<>>
    /\ restaurants = <<>>
    /\ unfiltered = <<>>
    /\ presorted = <<>>
    /\ local_dishes = <<>>
    /\ shown = <<>>

Init ==
    /\ pc = "form"
    /\ form = DefaultForm
    /\ log = <<>>
    /\ Blank

(***************************************************************************)
(* SpecQuery: the query builder over every preference set                  *)
(***************************************************************************)
QueryForms ==
    { Form(Delhi, c, b, d, r, 5, <<>>) :
        c \in Range(CuisineOptions), b \in Range(BudgetOptions),
        d \in SUBSET DietaryOptions, r \in {5, 20, 50} }

NextQuery ==
    \/ \E f \in QueryForms : Submit(f)
    \/ GeocodeFound
    \/ BuildQuery

SpecQuery == Init /\ [][NextQuery]_vars

(***************************************************************************)
(* Spec: the whole handler on a few forms and a few Overpass answers       *)
(***************************************************************************)
PizzaHut ==
    Node("name" :> <<"P", "i", "z", "z", "a", " ", "H", "u", "t">> @@
         "amenity" :> <<"r", "e", "s", "t", "a", "u", "r", "a", "n", "t">> @@
         "cuisine" :> <<"p", "i", "z", "z", "a", ";", "i", "t", "a", "l", "i", "a", "n">> @@
         "stars" :> <<"0", ".", "9">> @@
         "addr:street" :> <<"J", "a", "n", "p", "a", "t", "h">> @@
         "addr:city" :> <<"D", "e", "l", "h", "i">>,
         28, 78)

CafeBlue ==
    Node("name" :> <<"C", "a", "f", "e", " ", "B", "l", "u", "e">> @@
         "amenity" :> <<"c", "a", "f", "e">> @@
         "contact:phone" :> <<"0", "1", "1">>,
         28, 79)

Dhaba ==
    Node("name" :> <<"D", "h", "a", "b", "a">> @@
         "amenity" :> <<"r", "e", "s", "t", "a", "u", "r", "a", "n", "t">> @@
         "price_range" :> <<"2">> @@
         "stars" :> <<"0", ".", "6">>,
         27, 77)

NoName ==
    Node("amenity" :> <<"r", "e", "s", "t", "a", "u", "r", "a", "n", "t">> @@
         "stars" :> <<"1", ".", "0">>,
         28, 80)

EmptyName ==
    Node("name" :> <<>> @@
         "amenity" :> <<"f", "a", "s", "t", "_", "f", "o", "o", "d">> @@
         "stars" :> <<"1", ".", "0">>,
         28, 81)

Bank ==
    Node("name" :> <<"B", "a", "n", "k">> @@
         "amenity" :> <<"b", "a", "n", "k">>,
         28, 77)

Statue ==
    Node("name" :> <<"S", "t", "a", "t", "u", "e">> @@
         "tourism" :> <<"a", "r", "t", "w", "o", "r", "k">>,
         29, 77)

BadPrice ==
    Node("name" :> <<"T", "a", "n", "d", "o", "o", "r">> @@
         "amenity" :> <<"r", "e", "s", "t", "a", "u", "r", "a", "n", "t">> @@
         "price_range" :> <<"$", "$">>,
         28, 82)

Italian == CuisineOptions[5]

PizzaWifi == <<"P", "i", "z", "z", "a", " ", "w", "i", "f", "i">>

Forms ==
    { Form(<<>>, CuisineOptions[1], BudgetOptions[1], {}, 20, 3, <<>>) }
    \cup { Form(l, c, BudgetOptions[1], {}, 20, 3, a) :
             l \in {Delhi, Rome}, c \in {CuisineOptions[1], Italian}, a \in {<<>>, PizzaWifi} }

Answers ==
    { <<>>,
      <<NoName, Bank, Statue>>,
      <<PizzaHut, CafeBlue, NoName>>,
      <<Bank, EmptyName, PizzaHut>>,
      <<BadPrice, PizzaHut>>,
      <<PizzaHut, Dhaba, CafeBlue, EmptyName>> }

Next ==
    \/ \E f \in Forms : Submit(f)
    \/ GeocodeFound
    \/ GeocodeNone
    \/ GeocodeRaises
    \/ BuildQuery
    \/ \E nodes \in Answers : QueryReturns(nodes)
    \/ QueryRaises
    \/ Process
    \/ FilterPreferences
    \/ SortAndLimit
    \/ DisplayResults
    \/ DisplayNoMatches

Spec == Init /\ [][Next]_vars

(***************************************************************************)
(* SpecNorm: the normalizer over the values of the stars tag               *)
(***************************************************************************)
StarsValues ==
    { <<"0", ".", "9">>, <<"0", ".", "1">>, <<"0">>, <<"1">>, <<"0", ".", "5", "8">>, <<"0", ".", "2">>, <<"-", "0", ".", "1">>, <<"4", " ", "s", "t", "a", "r", "s">> }

StarNodes ==
    { Node(("name" :> <<"J", "o", "e", "s">> @@ "amenity" :> <<"r", "e", "s", "t", "a", "u", "r", "a", "n", "t">>), 28, 78) }
    \cup { Node(("name" :> <<"J", "o", "e", "s">> @@ "amenity" :> <<"r", "e", "s", "t", "a", "u", "r", "a", "n", "t">> @@ "stars" :> s), 28, 78) :
             s \in StarsValues }

\* the most nodes an Overpass answer holds in SpecNorm and SpecRank
MaxNodes == 2

NormForm == Form(Delhi, CuisineOptions[1], BudgetOptions[1], {}, 20, 5, <<>>)

NextNorm ==
    \/ Submit(NormForm)
    \/ GeocodeFound
    \/ BuildQuery
    \/ \E n \in StarNodes, k \in 1..MaxNodes : QueryReturns([i \in 1..k |-> n])
    \/ Process

SpecNorm == Init /\ [][NextNorm]_vars

(***************************************************************************)
(* SpecRank: the free-text filter and the ranking over lists of restaurants *)
(***************************************************************************)
Near4 ==
    Node("name" :> <<"P", "i", "z", "z", "a", " ", "H", "u", "t">> @@
         "amenity" :> <<"r", "e", "s", "t", "a", "u", "r", "a", "n", "t">> @@
         "stars" :> <<"0", ".", "8">>,
         28, 78)

Far5 ==
    Node("name" :> <<"P", "h", "o", "n", "e", " ", "B", "o", "o", "t", "h">> @@
         "amenity" :> <<"c", "a", "f", "e">> @@
         "stars" :> <<"1", ".", "0">>,
         28, 88)

Near1 ==
    Node("name" :> <<"W", "i", "f", "i", " ", "L", "o", "u", "n", "g", "e">> @@
         "amenity" :> <<"r", "e", "s", "t", "a", "u", "r", "a", "n", "t">> @@
         "stars" :> <<"0", ".", "2">>,
         27, 77)

Far2 ==
    Node("name" :> <<"D", "o", "s", "a", " ", "P", "o", "i", "n", "t">> @@
         "amenity" :> <<"f", "a", "s", "t", "_", "f", "o", "o", "d">> @@
         "stars" :> <<"0", ".", "4">>,
         27, 87)

Unrated ==
    Node("name" :> <<"C", "a", "f", "e", " ", "B", "l", "u", "e">> @@
         "amenity" :> <<"c", "a", "f", "e">>,
         28, 79)

RankNodes == {Near4, Far5, Near1, Far2, Unrated}

\* the most restaurants in an answer of SpecRank
MaxRanked == 4

Injective(s) == \A i, j \in DOMAIN s : i # j => s[i] # s[j]

\* answers of up to MaxRanked distinct nodes, in any order
RankAnswers ==
    UNION { { s \in [1..k -> RankNodes] : Injective(s) } : k \in 0..MaxRanked }

Pizza == <<"p", "i", "z", "z", "a">>

PhoneWifi == <<"P", "H", "O", "N", "E", " ", " ", "w", "i", "f", "i">>

Zzz == <<"z", "z", "z">>

FreeTexts == { <<>>, Pizza, PhoneWifi, Zzz, <<" ">> }

RankForms ==
    { Form(Delhi, CuisineOptions[1], BudgetOptions[1], {}, 50, 3, a) : a \in FreeTexts }
    \cup { Form(Delhi, CuisineOptions[1], BudgetOptions[1], {}, 50, 10, <<>>) }

NextRank ==
    \/ \E f \in RankForms : Submit(f)
    \/ GeocodeFound
    \/ BuildQuery
    \/ \E nodes \in RankAnswers : QueryReturns(nodes)
    \/ Process
    \/ FilterPreferences
    \/ SortAndLimit

SpecRank == Init /\ [][NextRank]_vars

(***************************************************************************)
(* SpecDish: the dish recommender over every cuisine and a few locations   *)
(***************************************************************************)
DishLocations == { Delhi, Rome, <<"M", "U", "M", "B", "A", "I", " ", "C", "e", "n", "t", "r", "a", "l">>, <<"M", "u", "m", "b", "a", "i", " ", "t", "o", " ", "D", "e", "l", "h", "i", " ", "r", "o", "a", "d">> }

DishForms ==
    { Form(l, c, BudgetOptions[1], {}, 20, 5, <<>>) :
        l \in DishLocations, c \in Range(CuisineOptions) }

NextDish ==
    \/ \E f \in DishForms : Submit(f)
    \/ GeocodeFound
    \/ BuildQuery
    \/ QueryReturns(<<Near4>>)
    \/ Process
    \/ FilterPreferences
    \/ SortAndLimit
    \/ DisplayResults

SpecDish == Init /\ [][NextDish]_vars

(***************************************************************************)
(* Claims about the query builder (SpecQuery)                              *)
(***************************************************************************)
DietaryFlags == {"Vegetarian", "Vegan", "Gluten-Free"}

DietTag(flag) ==
    CASE flag = "Vegetarian" -> "diet:vegetarian"
      [] flag = "Vegan" -> "diet:vegan"
      [] flag = "Gluten-Free" -> "diet:gluten_free"

\* filters is exactly one exact-match filter per flag of selected, and nothing else
OneFilterPerFlag(filters, selected) ==
    /\ \A flag \in DietaryFlags :
          (flag \in selected) <=>
              \E i \in DOMAIN filters : filters[i] = TagFilter(DietTag(flag), "=", yes)
    /\ Len(filters) = Cardinality(selected \cap DietaryFlags)

\* C5 as stated: for every selection among {None, Vegetarian, Vegan, Gluten-Free},
\* get_dietary_filter returns one exact-match filter for each selected flag and no
\* other filter, and the list is empty only when no dietary flag is selected.
C5_Original ==
    pc = "query" =>
        /\ OneFilterPerFlag(dietary_filters, form.dietary_restrictions)
        /\ (dietary_filters = <<>> => form.dietary_restrictions \cap DietaryFlags = {})

\* C5 amended: when "None" is not among the selected options, get_dietary_filter
\* returns one exact-match filter for each selected flag and no other filter; when
\* "None" is selected (alone or together with flags) it returns the empty list.  The
\* list is empty only when "None" is selected or no flag is selected.
C5_DietaryFilter ==
    pc = "query" =>
        /\ "None" \notin form.dietary_restrictions =>
              OneFilterPerFlag(dietary_filters, form.dietary_restrictions)
        /\ "None" \in form.dietary_restrictions => dietary_filters = <<>>
        /\ dietary_filters = <<>> =>
              \/ "None" \in form.dietary_restrictions
              \/ form.dietary_restrictions \cap DietaryFlags = {}

C5_Witness ==
    /\ pc = "query"
    /\ form.dietary_restrictions = {"Vegetarian", "Gluten-Free"}
    /\ Len(dietary_filters) = 2

C5_WitnessNone ==
    /\ pc = "query"
    /\ form.dietary_restrictions = {"None", "Vegan"}
    /\ dietary_filters = <<>>

\* the ordinal string of a budget tier: "1" for the first option, ..., "4" for the last
TierOrdinal(budget_range) ==
    <<DigitChars[(CHOOSE i \in DOMAIN BudgetOptions : BudgetOptions[i] = budget_range) + 1]>>

\* key is cuisine_type lowercased with every space turned into an underscore
IsCuisineKey(key, cuisine_type) ==
    /\ Len(key) = Len(cuisine_type)
    /\ \A i \in DOMAIN key :
          key[i] = IF cuisine_type[i] = " " THEN "_" ELSE LowerChar(cuisine_type[i])
    /\ \A i \in DOMAIN key : ~IsUpper(key[i]) /\ key[i] # " "

PartsOf(amenity) == { i \in DOMAIN query_parts : query_parts[i].amenity = amenity }

WithTag(filters, tag) == { i \in DOMAIN filters : filters[i].tag = tag }

IsDietTag(tag) == \E flag \in DietaryFlags : tag = DietTag(flag)

Region ==
    [meters |-> form.radius_km * 100,
     latitude |-> location_data[1].latitude, longitude |-> location_data[1].longitude]

\* the filters of a subquery that are dietary filters, in order
RECURSIVE DietPart(_)
DietPart(filters) ==
    IF filters = <<>> THEN <<>>
    ELSE (IF IsDietTag(Head(filters).tag) THEN <<Head(filters)>> ELSE <<>>)
         \o DietPart(Tail(filters))

\* C6: the built query is the union of (1) exactly one restaurant subquery over the
\* circular region, with a cuisine substring filter iff cuisine is not Any (on the
\* lowercased, space-to-underscore key), every dietary filter and a price_range
\* filter equal to the tier's ordinal "1".."4"; (2) exactly one cafe subquery over
\* the same region with the same dietary filters and no cuisine or price filter;
\* (3) a fast_food subquery over the same region with no filter, present iff the
\* budget tier is the lowest.
C6_QueryShape ==
    pc = "query" =>
        /\ Cardinality(PartsOf("restaurant")) = 1
        /\ Cardinality(PartsOf("cafe")) = 1
        /\ Cardinality(PartsOf("fast_food")) = IF form.budget_range = BudgetOptions[1] THEN 1 ELSE 0
        /\ Len(query_parts) = Cardinality(PartsOf("restaurant")) + Cardinality(PartsOf("cafe"))
                              + Cardinality(PartsOf("fast_food"))
        /\ \A i \in DOMAIN query_parts : query_parts[i].around = Region
        /\ \A i \in PartsOf("restaurant") :
              LET fs == query_parts[i].filters IN
              /\ Cardinality(WithTag(fs, "cuisine")) = IF form.cuisine_type = CuisineOptions[1] THEN 0 ELSE 1
              /\ \A j \in WithTag(fs, "cuisine") :
                    fs[j].op = "~" /\ IsCuisineKey(fs[j].val, form.cuisine_type)
              /\ DietPart(fs) = dietary_filters
              /\ Cardinality(WithTag(fs, "price_range")) = 1
              /\ \A j \in WithTag(fs, "price_range") :
                    fs[j].op = "=" /\ fs[j].val = TierOrdinal(form.budget_range)
              /\ Len(fs) = Cardinality(WithTag(fs, "cuisine")) + Len(dietary_filters) + 1
        /\ \A i \in PartsOf("cafe") : query_parts[i].filters = dietary_filters
        /\ \A i \in PartsOf("fast_food") : query_parts[i].filters = <<>>

C6_Witness ==
    /\ pc = "query"
    /\ form.cuisine_type = CuisineOptions[2]
    /\ form.budget_range = BudgetOptions[1]
    /\ form.dietary_restrictions = {"Vegan"}
    /\ Len(query_parts) = 3
    /\ Len(query_parts[1].filters) = 3

(***************************************************************************)
(* Claims about the free-text filter and the ranking (SpecRank)            *)
(***************************************************************************)
NoneMatches(rs, text) == \A i \in DOMAIN rs : ~matches(rs[i], lower(text))

\* C1: fallback rule of the free-text filter: a non-empty list of eligible restaurants
\* stays non-empty whatever the free text; when the keyword filter keeps no restaurant
\* the unfiltered list goes on unchanged; the final output is empty only when the
\* unfiltered list was empty.
C1_FilterFallback ==
    /\ pc \in {"sort", "display"} =>
          /\ unfiltered # <<>> => restaurants # <<>>
    /\ pc = "sort" =>
          /\ NoneMatches(unfiltered, form.additional_preferences) => restaurants = unfiltered
          /\ form.additional_preferences = <<>> => restaurants = unfiltered
    /\ pc = "display" =>
          /\ presorted # <<>> <=> unfiltered # <<>>
          /\ restaurants = <<>> => unfiltered = <<>>

C1_Witness ==
    /\ pc = "display"
    /\ form.additional_preferences = Zzz
    /\ Len(unfiltered) = 4
    /\ presorted = unfiltered
    /\ Len(restaurants) = 3

IndexIn(s, r) == CHOOSE i \in DOMAIN s : s[i] = r

\* the composite score -starRating + 0.1 * distanceKm in exact arithmetic, in tenths
ExactScore(r) == r.distance - r.stars.tenths

ExactBefore(x, y) ==
    \/ ExactScore(x) < ExactScore(y)
    \/ ExactScore(x) = ExactScore(y) /\ IndexIn(presorted, x) < IndexIn(presorted, y)

FloatBefore(x, y) ==
    \/ FloatLess(sort_key(x), sort_key(y))
    \/ /\ ~FloatLess(sort_key(y), sort_key(x))
       /\ IndexIn(presorted, x) < IndexIn(presorted, y)

\* the output is the first num_recommendations entries of presorted in the order Before
IsRanking(Precedes(_, _)) ==
    /\ Len(restaurants) = Min(form.num_recommendations, Len(presorted))
    /\ \A k \in DOMAIN restaurants : \E i \in DOMAIN presorted : presorted[i] = restaurants[k]
    /\ \A k, l \in DOMAIN restaurants : k < l => Precedes(restaurants[k], restaurants[l])
    /\ \A i \in DOMAIN presorted :
          (\A k \in DOMAIN restaurants : restaurants[k] # presorted[i]) =>
              \A k \in DOMAIN restaurants : ~Precedes(presorted[i], restaurants[k])

FieldValues(r) ==
    { r.name, r.cuisine, r.address, r.phone, r.website, r.opening_hours, r.price_range,
      r.price_display, StarsStr(r.stars), r.rating, WholeFloatStr(r.lat),
      WholeFloatStr(r.lon), WholeFloatStr(r.distance) }

ValueMatch(r, text) ==
    \E k \in DOMAIN split(lower(text)) :
        \E v \in FieldValues(r) : Contains(lower(v), split(lower(text))[k])

\* C10: when at least one restaurant matches, the list passed on to sorting is exactly
\* the restaurants, in original order, for which some lowercased whitespace-separated
\* token of the free text is a substring of the lowercased text of a field value; a
\* token that occurs in no field value of a restaurant does not keep it.
C10_Original ==
    (pc = "sort" /\ form.additional_preferences # <<>>) =>
        LET Keep(r) == ValueMatch(r, form.additional_preferences)
            kept == SelectSeq(unfiltered, Keep)
        IN  kept # <<>> => restaurants = kept

(***************************************************************************)
(* Claims about the normalizer (SpecNorm)                                  *)
(***************************************************************************)
\* stars is the stars tag read as a fraction of 5 stars, truncated
IsTagRating(stars, text) ==
    /\ stars.isint
    /\ stars.tenths = 10 * TruncDiv(ParseFloat(text).num * 5, ParseFloat(text).den)

IsDrawnRating(stars) == ~stars.isint /\ stars.tenths \in MinDraw..MaxDraw

\* C7: for every raw POI with a stars tag the rating is the tag's fraction of 5 stars
\* truncated to an integer (0.9 gives 4); a rating in [3.5, 4.9] is synthesized only
\* when the POI has no stars tag; the rating is never null.  (In SpecNorm every node
\* of an answer is eligible, so restaurants[i] is the normalized result[i].)
C7_Original ==
    pc = "filter" =>
        /\ Len(restaurants) = Len(result)
        /\ \A i \in DOMAIN restaurants :
              IF "stars" \in DOMAIN result[i].tags
              THEN IsTagRating(restaurants[i].stars, result[i].tags["stars"])
              ELSE IsDrawnRating(restaurants[i].stars)

(***************************************************************************)
(* Claims about the dish recommender (SpecDish)                            *)
(***************************************************************************)
\* C8: the fallback sampling runs only when no dish was gathered and the cuisine is a
\* known value other than Any; for cuisine Any and a location naming no known region
\* no fallback dish is added and the list is empty; at most 3 dishes are returned.
C8_Original ==
    pc = "done" =>
        /\ Len(local_dishes) <= 3
        /\ (form.cuisine_type = CuisineOptions[1]
            /\ MatchingRegions(lower(form.location)) = {}) => local_dishes = <<>>

(***************************************************************************)
(* Claims about the handler as a whole (Spec)                              *)
(***************************************************************************)
Before(a, b) == \E i, j \in DOMAIN log : i < j /\ log[i] = a /\ log[j] = b

Called(a) == \E i \in DOMAIN log : log[i] = a

Kinds == { shown[i].kind : i \in DOMAIN shown }

\* the call a returned: no "raised" follows it in the log
Returned(a) == \E i \in DOMAIN log : log[i] = a /\ (i = Len(log) \/ log[i + 1] # "raised")

\* C3: the query is built and executed only after geocoding has returned a point;
\* normalization and ranking begin only after the query has returned; when geocoding
\* returns no match the request ends in the not-found outcome, the query is never
\* executed, no restaurant is normalized or ranked and no dish is recommended.
C3_PipelineOrder ==
    /\ Called("build") => Before("geocode", "build") /\ Returned("geocode") /\ location_data # <<>>
    /\ Called("query") => Before("build", "query") /\ query_parts # <<>>
    /\ Called("normalize") => Before("query", "normalize") /\ Returned("query")
    /\ Called("filter") => Before("normalize", "filter") /\ Returned("normalize")
    /\ Called("rank") => Before("filter", "rank")
    /\ Called("recommend") => Before("rank", "recommend")
    /\ "not_found" \in Kinds =>
          /\ pc = "done"
          /\ shown = <<Outcome("not_found", <<>>, <<>>)>>
          /\ log = <<"geocode">>
          /\ query_parts = <<>> /\ result = <<>>
          /\ restaurants = <<>> /\ local_dishes = <<>>
    /\ (pc = "done" /\ log = <<"geocode">>) => "not_found" \in Kinds

C3_Witness ==
    /\ pc = "done"
    /\ form.location = Rome
    /\ "not_found" \in Kinds
    /\ log = <<"geocode">>

C3_WitnessFull ==
    /\ pc = "done"
    /\ log = <<"geocode", "build", "query", "normalize", "filter", "rank", "recommend">>

\* C4: every request with a non-empty location ends in exactly one outcome among
\* not-found, generic failure, no-matches and success; a failure of the geocoder or of
\* the map query gives the generic failure; a completed pipeline gives no-matches
\* exactly when the ranked list is empty and success (the ranked list and the dishes)
\* exactly when it is not; restaurants are never shown with a non-success outcome.
\* Nothing is shown before the handler ends, and exactly one outcome when it has.
C4_OneOutcome ==
    /\ pc # "done" => shown = <<>>
    /\ (pc = "done" /\ form.location # <<>>) =>
          /\ Len(shown) = 1
          /\ shown[1].kind \in {"not_found", "error", "no_matches", "success"}
          /\ Called("raised") <=> shown[1].kind = "error"
          /\ (Called("geocode") /\ ~Returned("geocode")) => shown[1].kind = "error"
          /\ (Called("query") /\ ~Returned("query")) => shown[1].kind = "error"
          /\ Called("rank") =>
                /\ shown[1].kind = "no_matches" <=> restaurants = <<>>
                /\ shown[1].kind = "success" <=> restaurants # <<>>
          /\ shown[1].kind \in {"no_matches", "success"} => Called("rank")
          /\ shown[1].kind = "success" =>
                shown[1].restaurants = restaurants /\ shown[1].dishes = local_dishes
          /\ shown[1].kind # "success" =>
                shown[1].restaurants = <<>> /\ shown[1].dishes = <<>>

C4_Witness ==
    /\ pc = "done"
    /\ Len(shown) = 1
    /\ shown[1].kind = "success"
    /\ Len(shown[1].restaurants) = 3
    /\ Len(result) = 4

C4_WitnessError ==
    /\ pc = "done"
    /\ shown = <<Outcome("error", <<>>, <<>>)>>
    /\ log = <<"geocode", "build", "query", "raised">>

\* the raw POI a restaurant was made from: the node at its position
SourceOf(r) == { i \in DOMAIN result : result[i].lat = r.lat /\ result[i].lon = r.lon }

NamedAndEligible(node) ==
    /\ "name" \in DOMAIN node.tags
    /\ node.tags["name"] # <<>>
    /\ "amenity" \in DOMAIN node.tags
    /\ node.tags["amenity"] \in EligibleAmenities

Emitted == UNION { { shown[i].restaurants[k] : k \in DOMAIN shown[i].restaurants } : i \in DOMAIN shown }

\* C9: every restaurant that is normalized, ranked or emitted comes from a raw POI
\* with a non-empty name tag and an amenity among restaurant, cafe, fast_food; a raw
\* POI with a missing or empty name, or another or no amenity, never appears.
C9_Original ==
    \A r \in Range(restaurants) \cup Range(unfiltered) \cup Range(presorted) \cup Emitted :
        /\ SourceOf(r) # {}
        /\ \A i \in SourceOf(r) : NamedAndEligible(result[i])

====
